---- MODULE Spec2Model ----
(***************************************************************************)
(* The REST client of substra (substra/sdk/rest_client.py) and its profile *)
(* store (substra/sdk/config.py).                                          *)
(*                                                                         *)
(* One client call is in progress at a time (the client is synchronous).   *)
(* A call issues HTTP requests one after the other; the server's answer to *)
(* each request is chosen by the environment.  pc is the request the call  *)
(* is blocked on.                                                          *)
(***************************************************************************)
EXTENDS Integers, Sequences, FiniteSets, TLC

VARIABLES
    pc,       \* position of the call in progress
    call,     \* arguments of the call in progress
    sent,     \* HTTP requests issued by the call in progress, in order
    answers,  \* the kind and key of what _request returned or raised, per request
    last,     \* the server's answer to the last answered request
    result,   \* what the call returned or raised
    elapsed,  \* time since the polling of add started
    cfile,    \* content of the config file of the profile store
    cret,     \* what the last profile store call returned or raised
    added,    \* per profile name, the arguments of the last add_profile that returned
    conf      \* the attributes set_config gave the client, and what it returned or raised

vars == <<pc, call, sent, answers, last, result, elapsed, cfile, cret, added, conf>>
restVars == <<pc, call, sent, answers, last, result, elapsed>>
configVars == <<cfile, cret, added, conf>>

----------------------------------------------------------------------------
(* Bounds *)

\* longest list of keys of a bulk answer
MaxKeys == 2
\* longest inner list of a listing answer
MaxInner == 2
\* longest listing answer
MaxOuter == 2
\* largest retry_timeout a caller passes
MaxRetryTimeout == 3
\* longest time one polling round (request and sleep) takes
MaxDelay == 2

----------------------------------------------------------------------------
(* Values *)

SeqsUpTo(S, n) == UNION {[1..m -> S] : m \in 0..n}

Atoms == {"a", "b"}
AssetNames == {"dataset", "algo"}

\* Python's None
None == [t |-> "none", v |-> <<>>]
\* a JSON string
Str(a) == [t |-> "str", v |-> a]
\* a JSON object; v holds the value of its 'pkhash' entry, if it has one
Obj(ks) == [t |-> "obj", v |-> ks]
\* a JSON list
Lst(items) == [t |-> "list", v |-> items]
\* a body that is not JSON
Text == [t |-> "text", v |-> <<>>]

Objs == {Obj(ks) : ks \in SeqsUpTo(Atoms, 1)}
KeyedObjs == {Obj(<<k>>) : k \in Atoms}
Strs == {Str(a) : a \in Atoms}

\* bodies a server sends for an asset or for a bulk of assets
ProtocolBodies ==
    {Text} \cup Objs \cup Strs \cup {Lst(s) : s \in SeqsUpTo(KeyedObjs, MaxKeys)}

\* bodies a server sends for a listing
InnerLists == {Lst(s) : s \in SeqsUpTo(Strs, MaxInner)}
ListBodies ==
    {Text} \cup {Obj(<<>>)} \cup {Lst(s) : s \in SeqsUpTo(Strs \cup InnerLists, MaxOuter)}

StatusCodes ==
    {101, 200, 204, 302, 399, 400, 401, 403, 404, 405, 408, 409, 499, 500, 503, 599}

\* what the requests library does with one HTTP request: it raises one of its
\* exceptions or returns a response
TransportFailures == {"ConnectionError", "ConnectTimeout", "ReadTimeout", "TooManyRedirects"}
Outcomes(B) ==
    {[t |-> f, status |-> 0, body |-> Text] : f \in TransportFailures}
    \cup {[t |-> "response", status |-> s, body |-> b] : s \in StatusCodes, b \in B}

ProtocolOutcomes == Outcomes(ProtocolBodies)
ListOutcomes == Outcomes(ListBodies)

Return(v, s) == [kind |-> "return", key |-> None, value |-> v, status |-> s]
Raise(k, key, v, s) == [kind |-> k, key |-> key, value |-> v, status |-> s]
NoResult == [kind |-> "none", key |-> None, value |-> None, status |-> 0]
Response(o) == [t |-> "response", v |-> <<o.status, o.body>>]

----------------------------------------------------------------------------
(* HTTP transport: Client._request and Client.request *)

\* requests' Response.raise_for_status raises HTTPError for the 4xx and 5xx codes
raise_for_status(s) == 400 <= s /\ s < 600

\* the key an exception carries, read from the body of the response
ExtractKey(body) ==
    IF body.t = "obj"
    THEN (IF Len(body.v) = 1 THEN Str(body.v[1]) ELSE None)
    ELSE IF body.t = "list" /\ \A i \in 1..Len(body.v) : body.v[i].t = "obj" /\ Len(body.v[i].v) = 1
    THEN Lst([i \in 1..Len(body.v) |-> Str(body.v[i].v[1])])
    ELSE None

from_request_exception(kind, o) ==
    IF o.t = "response"
    THEN Raise(kind,
               IF kind \in {"RequestTimeout", "AlreadyExists"} THEN ExtractKey(o.body) ELSE None,
               Response(o), o.status)
    ELSE Raise(kind, None, None, 0)

\* StatusError with the 401 and 403 clauses exchanged
StatusError_exchanged(o) ==
    IF o.status = 400 THEN from_request_exception("InvalidRequest", o)
    ELSE IF o.status = 403 THEN from_request_exception("AuthenticationError", o)
    ELSE IF o.status = 401 THEN from_request_exception("AuthorizationError", o)
    ELSE IF o.status = 404 THEN from_request_exception("NotFound", o)
    ELSE IF o.status = 408 THEN from_request_exception("RequestTimeout", o)
    ELSE IF o.status = 409 THEN from_request_exception("AlreadyExists", o)
    ELSE IF o.status = 500 THEN from_request_exception("InternalServerError", o)
    ELSE from_request_exception("HTTPError", o)

\* StatusError with every 5xx code taken for 500
StatusError_any5xx(o) ==
    IF o.status = 400 THEN from_request_exception("InvalidRequest", o)
    ELSE IF o.status = 401 THEN from_request_exception("AuthenticationError", o)
    ELSE IF o.status = 403 THEN from_request_exception("AuthorizationError", o)
    ELSE IF o.status = 404 THEN from_request_exception("NotFound", o)
    ELSE IF o.status = 408 THEN from_request_exception("RequestTimeout", o)
    ELSE IF o.status = 409 THEN from_request_exception("AlreadyExists", o)
    ELSE IF o.status >= 500 THEN from_request_exception("InternalServerError", o)
    ELSE from_request_exception("HTTPError", o)

\* the except clause of requests.exceptions.HTTPError
StatusError(o) ==
    IF o.status = 400 THEN from_request_exception("InvalidRequest", o)
    ELSE IF o.status = 401 THEN from_request_exception("AuthenticationError", o)
    ELSE IF o.status = 403 THEN from_request_exception("AuthorizationError", o)
    ELSE IF o.status = 404 THEN from_request_exception("NotFound", o)
    ELSE IF o.status = 408 THEN from_request_exception("RequestTimeout", o)
    ELSE IF o.status = 409 THEN from_request_exception("AlreadyExists", o)
    ELSE IF o.status = 500 THEN from_request_exception("InternalServerError", o)
    ELSE from_request_exception("HTTPError", o)

\* the try statement around the HTTP request: requests' ConnectTimeout is a
\* ConnectionError and a Timeout, and the ConnectionError clause comes first;
\* an exception of requests that is none of the three caught is not caught
TryRequest(o) ==
    IF o.t \in {"ConnectionError", "ConnectTimeout"}
    THEN from_request_exception("ConnectionError", o)
    ELSE IF o.t = "ReadTimeout"
    THEN from_request_exception("Timeout", o)
    ELSE IF o.t = "response"
    THEN (IF raise_for_status(o.status) THEN StatusError(o) ELSE Return(Response(o), o.status))
    ELSE Raise(o.t, None, None, 0)

SupportedVerbs == {"get", "post"}

_request(request_name, o) ==
    IF request_name \notin SupportedVerbs
    THEN Raise("NotImplementedError", None, None, 0)
    ELSE TryRequest(o)

\* response.json(): the parsed body, or ValueError
IsJson(body) == body.t # "text"

request(request_name, o, json_response) ==
    LET r == _request(request_name, o) IN
    IF r.kind # "return" \/ ~json_response THEN r
    ELSE IF IsJson(o.body) THEN Return(o.body, o.status)
    ELSE Raise("InvalidResponse", None, Response(o), o.status)

----------------------------------------------------------------------------
(* Asset gateway: Client.get, list, add, get_data, and the downloads *)

\* utils.flatten: the inner lists one after the other
RECURSIVE flatten(_)
flatten(lists) ==
    IF lists = <<>> THEN <<>> ELSE Head(lists).v \o flatten(Tail(lists))

\* FlattenItems with the list of lists left as it is
FlattenItems_unflattened(items) == items

\* the end of Client.list: a list of lists is flattened
FlattenItems(items) ==
    IF items.t = "list" /\ \A i \in 1..Len(items.v) : items.v[i].t = "list"
    THEN Lst(flatten(items.v))
    ELSE items

\* utils.retry_on_exception(NotFound, timeout) around one call that gave r at
\* time now: "return" its result, "raise" its failure, or sleep and call "again"
retry_on_exception(r, now, timeout) ==
    IF r.kind = "return" THEN "return"
    ELSE IF r.kind = "NotFound" /\ now < timeout THEN "again"
    ELSE "raise"

NoCall ==
    [op |-> "none", name |-> "", key |-> None, retry_timeout |-> 0,
     exist_ok |-> FALSE, verb |-> "", json_response |-> TRUE]
NoOutcome == [t |-> "none", status |-> 0, body |-> Text]

\* one HTTP request: request() builds the URL from the asset name and the path
Req(verb, name, path) == [verb |-> verb, name |-> name, path |-> path]

Paths == {None} \cup Strs
Addresses == {"http://storage/a", "http://storage/b"}
RetryTimeouts == 0..MaxRetryTimeout

\* a call starts by issuing its first request
Begin(c, p, r) ==
    /\ pc = "idle"
    /\ pc' = p
    /\ call' = c
    /\ sent' = <<r>>
    /\ answers' = <<>>
    /\ last' = NoOutcome
    /\ result' = NoResult
    /\ elapsed' = 0
    /\ UNCHANGED configVars

\* a call ends: it returns or raises r
Finish(o, r, t) ==
    /\ pc' = "done"
    /\ result' = r
    /\ last' = o
    /\ elapsed' = t
    /\ UNCHANGED <<call, sent>>
    /\ UNCHANGED configVars

\* a call goes on with another request
Continue(o, p, r, t) ==
    /\ pc' = p
    /\ sent' = Append(sent, r)
    /\ last' = o
    /\ elapsed' = t
    /\ UNCHANGED <<call, result>>
    /\ UNCHANGED configVars

\* the caller has the result; the client is ready for another call
Back ==
    /\ pc = "done"
    /\ pc' = "idle"
    /\ call' = NoCall
    /\ sent' = <<>>
    /\ answers' = <<>>
    /\ last' = NoOutcome
    /\ result' = NoResult
    /\ elapsed' = 0
    /\ UNCHANGED configVars

\* what _request gave for the request just answered
Answered(verb, o) ==
    LET r == _request(verb, o) IN
    answers' = Append(answers, [kind |-> r.kind, key |-> r.key])

(* Client.request called directly *)
RequestCall(verb, name, path, json_response) ==
    LET c == [NoCall EXCEPT !.op = "request", !.name = name, !.key = path,
                            !.verb = verb, !.json_response = json_response] IN
    IF verb \in SupportedVerbs
    THEN Begin(c, "request", Req(verb, name, path))
    ELSE /\ pc = "idle"
         /\ pc' = "done"
         /\ call' = c
         /\ result' = request(verb, NoOutcome, json_response)
         /\ UNCHANGED <<sent, answers, last, elapsed>>
         /\ UNCHANGED configVars

RequestAnswer ==
    /\ pc = "request"
    /\ \E o \in ProtocolOutcomes :
       /\ LET r == request(call.verb, o, call.json_response) IN
          /\ Answered(call.verb, o)
          /\ Finish(o, r, elapsed)

(* Client.get *)
GetCall(name, key) ==
    Begin([NoCall EXCEPT !.op = "get", !.name = name, !.key = key, !.verb = "get"],
          "get", Req("get", name, key))

GetAnswer ==
    /\ pc = "get"
    /\ \E o \in ProtocolOutcomes :
       /\ LET r == request("get", o, TRUE) IN
          /\ Answered("get", o)
          /\ Finish(o, r, elapsed)

(* Client.list *)
ListCall(name) ==
    Begin([NoCall EXCEPT !.op = "list", !.name = name, !.verb = "get"],
          "list", Req("get", name, None))

ListResult(o) ==
    LET r == request("get", o, TRUE) IN
    IF r.kind = "return" THEN Return(FlattenItems(r.value), r.status) ELSE r

ListAnswer(outcomes) ==
    /\ pc = "list"
    /\ \E o \in outcomes :
       /\ Answered("get", o)
       /\ Finish(o, ListResult(o), elapsed)

(* Client.get_data *)
GetDataCall(address) ==
    Begin([NoCall EXCEPT !.op = "get_data", !.name = address, !.verb = "get",
                         !.json_response = FALSE],
          "get_data", Req("get", address, None))

GetDataAnswer ==
    /\ pc = "get_data"
    /\ \E o \in ProtocolOutcomes :
       /\ LET r == _request("get", o) IN
          /\ Answered("get", o)
          /\ Finish(o, r, elapsed)

(* Client.add *)
AddCall(name, retry_timeout, exist_ok) ==
    Begin([NoCall EXCEPT !.op = "add", !.name = name, !.verb = "post",
                         !.retry_timeout = retry_timeout, !.exist_ok = exist_ok],
          "post", Req("post", name, None))

\* AddAfterPost without the test of exist_ok
AddAfterPost_no_exist_ok(r, retry_timeout, exist_ok) ==
    IF r.kind = "RequestTimeout"
    THEN (IF retry_timeout = 0 \/ r.key.t = "list" THEN "finish" ELSE "poll")
    ELSE IF r.kind = "AlreadyExists"
    THEN (IF r.key.t = "list" THEN "finish" ELSE "fetch")
    ELSE "finish"

\* AddAfterPost with a single get after a 408, not retried
AddAfterPost_no_retry(r, retry_timeout, exist_ok) ==
    IF r.kind = "RequestTimeout"
    THEN (IF retry_timeout = 0 \/ r.key.t = "list" THEN "finish" ELSE "fetch")
    ELSE IF r.kind = "AlreadyExists"
    THEN (IF ~exist_ok THEN "finish"
          ELSE IF r.key.t = "list" THEN "finish"
          ELSE "fetch")
    ELSE "finish"

\* AddAfterPost without the test of is_many after a 408
AddAfterPost_no_is_many(r, retry_timeout, exist_ok) ==
    IF r.kind = "RequestTimeout"
    THEN (IF retry_timeout = 0 THEN "finish" ELSE "poll")
    ELSE IF r.kind = "AlreadyExists"
    THEN (IF ~exist_ok THEN "finish"
          ELSE IF r.key.t = "list" THEN "finish"
          ELSE "fetch")
    ELSE "finish"

\* AddAfterPost with the transport's Timeout handled as a RequestTimeout
AddAfterPost_any_timeout(r, retry_timeout, exist_ok) ==
    IF r.kind \in {"RequestTimeout", "Timeout"}
    THEN (IF retry_timeout = 0 \/ r.key.t = "list" THEN "finish" ELSE "poll")
    ELSE IF r.kind = "AlreadyExists"
    THEN (IF ~exist_ok THEN "finish"
          ELSE IF r.key.t = "list" THEN "finish"
          ELSE "fetch")
    ELSE "finish"

\* AddAfterPost without the test of retry_timeout
AddAfterPost_no_budget_test(r, retry_timeout, exist_ok) ==
    IF r.kind = "RequestTimeout"
    THEN (IF r.key.t = "list" THEN "finish" ELSE "poll")
    ELSE IF r.kind = "AlreadyExists"
    THEN (IF ~exist_ok THEN "finish"
          ELSE IF r.key.t = "list" THEN "finish"
          ELSE "fetch")
    ELSE "finish"

\* the except clauses of add, for the result r of the POST: the failure is
\* raised again ("finish"), or get is retried ("poll"), or get is called ("fetch")
AddAfterPost(r, retry_timeout, exist_ok) ==
    IF r.kind = "RequestTimeout"
    THEN (IF retry_timeout = 0 \/ r.key.t = "list" THEN "finish" ELSE "poll")
    ELSE IF r.kind = "AlreadyExists"
    THEN (IF ~exist_ok THEN "finish"
          ELSE IF r.key.t = "list" THEN "finish"
          ELSE "fetch")
    ELSE "finish"

\* RecoveryRequest without the key
RecoveryRequest_no_key(name, key) == Req("get", name, None)

\* RecoveryRequest posting again
RecoveryRequest_post(name, key) == Req("post", name, None)

\* self.get(name, key) of the two recoveries
RecoveryRequest(name, key) == Req("get", name, key)

AddPostAnswerOf(outcomes) ==
    /\ pc = "post"
    /\ \E o \in outcomes :
       /\ LET r == request("post", o, TRUE)
              next == AddAfterPost(r, call.retry_timeout, call.exist_ok) IN
          /\ Answered("post", o)
          /\ IF next = "finish"
             THEN Finish(o, r, elapsed)
             ELSE Continue(o, next, RecoveryRequest(call.name, r.key), 0)

\* AddPollAnswerOf that calls get again after every NotFound
AddPollAnswerOf_no_deadline(outcomes) ==
    /\ pc = "poll"
    /\ \E o \in outcomes, d \in 1..MaxDelay :
       /\ LET r == request("get", o, TRUE)
              now == elapsed + d IN
          /\ Answered("get", o)
          /\ IF r.kind = "NotFound"
             THEN Continue(o, "poll", sent[Len(sent)], now)
             ELSE Finish(o, r, now)

\* one round of retry(self.get)(name, key): the get is answered d after the
\* round began
AddPollAnswerOf(outcomes) ==
    /\ pc = "poll"
    /\ \E o \in outcomes, d \in 1..MaxDelay :
       /\ LET r == request("get", o, TRUE)
              now == elapsed + d IN
          /\ Answered("get", o)
          /\ IF retry_on_exception(r, now, call.retry_timeout) = "again"
             THEN Continue(o, "poll", sent[Len(sent)], now)
             ELSE Finish(o, r, now)

AddFetchAnswerOf(outcomes) ==
    /\ pc = "fetch"
    /\ \E o \in outcomes :
       /\ LET r == request("get", o, TRUE) IN
          /\ Answered("get", o)
          /\ Finish(o, r, elapsed)

\* the steps of add with any answer of the server
AddPostAnswer == AddPostAnswerOf(ProtocolOutcomes)
AddPollAnswer == AddPollAnswerOf(ProtocolOutcomes)
AddFetchAnswer == AddFetchAnswerOf(ProtocolOutcomes)

\* answers that take add through each of its paths: a success, a 404, a 408 and
\* a 409 with a key, with a list of keys and with no key, a 500 and a failure
\* of the transport
AddOutcomes ==
    {o \in ProtocolOutcomes :
        \/ o.t = "ConnectionError"
        \/ /\ o.t = "response"
           /\ o.status \in {200, 404, 408, 409, 500}
           /\ o.body \in {Text, Obj(<<"a">>), Lst(<<Obj(<<"a">>)>>)}}

\* the steps of add with these answers
AddPostStep == AddPostAnswerOf(AddOutcomes)
AddPollStep == AddPollAnswerOf(AddOutcomes)
AddFetchStep == AddFetchAnswerOf(AddOutcomes)

(* download_dataset, download_algo, download_objective: get the asset, then
   get_data its content *)
DownloadCall(name, key) ==
    Begin([NoCall EXCEPT !.op = "download", !.name = name, !.key = key, !.verb = "get"],
          "asset", Req("get", name, key))

DownloadAssetAnswer ==
    /\ pc = "asset"
    /\ \E o \in ProtocolOutcomes, address \in Addresses :
       /\ LET r == request("get", o, TRUE) IN
          /\ Answered("get", o)
          /\ IF r.kind = "return"
             THEN Continue(o, "content", Req("get", address, None), elapsed)
             ELSE Finish(o, r, elapsed)

DownloadContentAnswer ==
    /\ pc = "content"
    /\ \E o \in ProtocolOutcomes :
       /\ LET r == _request("get", o) IN
          /\ Answered("get", o)
          /\ Finish(o, r, elapsed)

----------------------------------------------------------------------------
(* Profile store: config.py *)

ProfileNames == {"default", "p1"}
\* the order sort_keys gives the profile names
NameOrder == <<"default", "p1", "p2">>
Urls == {"http://127.0.0.1:8000", "https://substra.org"}
Versions == {"0.0", "0.1"}
\* "" stands for the values that are false in a condition (None, '')
Usernames == {"", "alice"}
Passwords == {"", "secret"}

\* the auth entry of a profile: False, or a dict
NoAuth == {}
AuthDict(username, password) == {<<"username", username>>, <<"password", password>>}

DEFAULT_CONFIG ==
    "default" :> [url |-> "http://127.0.0.1:8000", version |-> "0.0",
                  auth |-> NoAuth, insecure |-> FALSE]

\* the config file: absent, or a text that is not JSON, or the JSON document of
\* a dict of profiles, its entries in the order of their names
Absent == [state |-> "absent", doc |-> <<>>]
Malformed == [state |-> "malformed", doc |-> <<>>]
JsonFile(doc) == [state |-> "json", doc |-> doc]

\* json.load: the dict a document holds
Load(doc) ==
    [n \in {doc[i].name : i \in 1..Len(doc)} |->
        (CHOOSE e \in {doc[i] : i \in 1..Len(doc)} : e.name = n).profile]

\* json.dump(config, sort_keys=True)
Dump(config) ==
    LET In(n) == n \in DOMAIN config
        names == SelectSeq(NameOrder, In) IN
    [i \in 1..Len(names) |-> [name |-> names[i], profile |-> config[names[i]]]]

CRaise(k) == [kind |-> k, value |-> <<>>]
CReturn(v) == [kind |-> "return", value |-> v]

\* _read_config with the open inside the try and every failure reported as
\* the parse failure
_read_config_any_failure(file) ==
    IF file.state \in {"absent", "malformed"} THEN CRaise("ConfigException")
    ELSE CReturn(Load(file.doc))

_read_config(file) ==
    IF file.state = "absent" THEN CRaise("FileNotFoundError")
    ELSE IF file.state = "malformed" THEN CRaise("ConfigException")
    ELSE CReturn(Load(file.doc))

_write_config(config) == JsonFile(Dump(config))

create_profile(url, version, insecure, username, password) ==
    [url |-> url, version |-> version, insecure |-> insecure,
     auth |-> IF username # "" /\ password # "" THEN AuthDict(username, password) ELSE NoAuth]

\* dict.update
Update(old, new) ==
    [k \in DOMAIN old \cup DOMAIN new |-> IF k \in DOMAIN new THEN new[k] ELSE old[k]]

\* UpdateConfig that leaves a profile that is there already
UpdateConfig_keep(config, name, profile) ==
    IF name \in DOMAIN config
    THEN config
    ELSE (name :> profile) @@ config

\* the "update config file" step of _add_profile
UpdateConfig(config, name, profile) ==
    IF name \in DOMAIN config
    THEN [config EXCEPT ![name] = Update(config[name], profile)]
    ELSE (name :> profile) @@ config

\* _add_profile: what it returns or raises, and the file it leaves
_add_profile(file, name, url, version, insecure, username, password) ==
    LET r == _read_config(file)
        config == IF r.kind = "FileNotFoundError" THEN DEFAULT_CONFIG ELSE r.value
        new == UpdateConfig(config, name,
                            create_profile(url, version, insecure, username, password)) IN
    IF r.kind = "ConfigException"
    THEN [ret |-> r, file |-> file]
    ELSE [ret |-> CReturn(new), file |-> _write_config(new)]

_load_profile(file, name) ==
    LET r == _read_config(file) IN
    IF r.kind # "return" THEN r
    ELSE IF name \in DOMAIN r.value THEN CReturn(r.value[name])
    ELSE CRaise("ProfileNotFoundError")

NoArgs == [set |-> FALSE, url |-> "", version |-> "", insecure |-> FALSE,
           username |-> "", password |-> ""]
NoRet == [op |-> "none", name |-> "", kind |-> "none", value |-> <<>>]

(* Manager.add_profile *)
add_profile(name, url, version, insecure, username, password) ==
    LET a == _add_profile(cfile, name, url, version, insecure, username, password) IN
    /\ cfile' = a.file
    /\ cret' = [op |-> "add_profile", name |-> name, kind |-> a.ret.kind,
                value |-> IF a.ret.kind = "return" THEN a.ret.value[name] ELSE <<>>]
    /\ added' = IF a.ret.kind = "return"
                THEN [added EXCEPT ![name] =
                         [set |-> TRUE, url |-> url, version |-> version,
                          insecure |-> insecure, username |-> username,
                          password |-> password]]
                ELSE added
    /\ UNCHANGED conf
    /\ UNCHANGED restVars

(* Manager.load_profile *)
load_profile(name) ==
    LET r == _load_profile(cfile, name) IN
    /\ cret' = [op |-> "load_profile", name |-> name, kind |-> r.kind, value |-> r.value]
    /\ UNCHANGED <<cfile, added, conf>>
    /\ UNCHANGED restVars

(* Client.set_config *)

\* the urls a client is configured with; the last one ends with a slash
ConfigUrls == Urls \cup {"https://substra.org/"}

\* config['url'][:-1] if config['url'].endswith('/') else config['url']
StripSlash(url) == IF url = "https://substra.org/" THEN "https://substra.org" ELSE url

\* d[k] of a dict d: its value, or KeyError
HasKey(d, k) == \E e \in d : e[1] = k
GetItem(d, k) == (CHOOSE e \in d : e[1] = k)[2]

\* the attributes of a client before set_config
NoConf ==
    [kind |-> "none", config |-> <<>>, headers |-> "", kwargs |-> [keys |-> {}, auth |-> <<>>],
     base_url |-> ""]

\* set_config: the default keyword arguments (auth is there when "auth" is in
\* keys; verify is there, and False, when "verify" is in keys), the version of
\* the Accept header and the base url, or the KeyError of a missing key
set_config(config) ==
    LET auth == config.auth IN
    IF auth # NoAuth /\ (~HasKey(auth, "user") \/ ~HasKey(auth, "password"))
    THEN [NoConf EXCEPT !.kind = "KeyError", !.config = config]
    ELSE [kind |-> "return",
          config |-> config,
          headers |-> config.version,
          kwargs |-> [keys |-> (IF auth # NoAuth THEN {"auth"} ELSE {})
                               \cup (IF config.insecure THEN {"verify"} ELSE {}),
                      auth |-> IF auth # NoAuth
                               THEN <<GetItem(auth, "user"), GetItem(auth, "password")>>
                               ELSE <<>>],
          base_url |-> StripSlash(config.url)]

\* Client(config) with a profile the profile store returned
ConfigureLoaded ==
    /\ cret.kind = "return"
    /\ conf' = set_config(cret.value)
    /\ UNCHANGED <<cfile, cret, added>>
    /\ UNCHANGED restVars

\* Client(config) with a profile made by create_profile
ConfigureCreated(url, version, insecure, username, password) ==
    /\ conf' = set_config(create_profile(url, version, insecure, username, password))
    /\ UNCHANGED <<cfile, cret, added>>
    /\ UNCHANGED restVars

----------------------------------------------------------------------------
(* The client *)

InitRest ==
    /\ pc = "idle"
    /\ call = NoCall
    /\ sent = <<>>
    /\ answers = <<>>
    /\ last = NoOutcome
    /\ result = NoResult
    /\ elapsed = 0

InitConfig ==
    /\ cfile = Absent
    /\ cret = NoRet
    /\ added = [n \in ProfileNames |-> NoArgs]
    /\ conf = NoConf

Init == InitRest /\ InitConfig

Keys == {None} \cup Strs

Next ==
    \/ \E verb \in SupportedVerbs \cup {"put"}, name \in AssetNames, path \in Paths, j \in BOOLEAN :
          RequestCall(verb, name, path, j)
    \/ \E name \in AssetNames, key \in Keys : GetCall(name, key)
    \/ \E name \in AssetNames : ListCall(name)
    \/ \E address \in Addresses : GetDataCall(address)
    \/ \E name \in AssetNames, t \in RetryTimeouts, e \in BOOLEAN : AddCall(name, t, e)
    \/ \E name \in AssetNames, key \in Keys : DownloadCall(name, key)
    \/ RequestAnswer
    \/ GetAnswer
    \/ ListAnswer(ProtocolOutcomes)
    \/ GetDataAnswer
    \/ AddPostAnswer
    \/ AddPollAnswer
    \/ AddFetchAnswer
    \/ DownloadAssetAnswer
    \/ DownloadContentAnswer
    \/ Back

Spec == Init /\ [][Next]_vars

\* listing, with the answers a listing gets
NextList ==
    \/ \E name \in AssetNames : ListCall(name)
    \/ ListAnswer(ListOutcomes)
    \/ Back

SpecList == Init /\ [][NextList]_vars

\* the profile store; the config file may be there already, and not be JSON
InitStore ==
    /\ InitRest
    /\ cfile \in {Absent, Malformed}
    /\ cret = NoRet
    /\ added = [n \in ProfileNames |-> NoArgs]
    /\ conf = NoConf

NextStore ==
    \/ \E name \in ProfileNames, url \in Urls, version \in Versions, insecure \in BOOLEAN,
          username \in Usernames, password \in Passwords :
          add_profile(name, url, version, insecure, username, password)
    \/ \E name \in ProfileNames \cup {"p2"} : load_profile(name)

SpecStore == InitStore /\ [][NextStore]_vars

\* the calls of add alone
NextAdd ==
    \/ \E name \in AssetNames, t \in RetryTimeouts, e \in BOOLEAN : AddCall(name, t, e)
    \/ AddPostStep
    \/ AddPollStep
    \/ AddFetchStep
    \/ Back

SpecAdd == Init /\ [][NextAdd]_vars

\* every request that was sent is answered or fails, so each step of an add
\* that waits for its answer is taken
FairSpecAdd ==
    /\ SpecAdd
    /\ WF_vars(AddPostStep)
    /\ WF_vars(AddPollStep)
    /\ WF_vars(AddFetchStep)

\* a profile is added or loaded and a client is made with it, or a client is
\* made with a profile of create_profile before the profile store is used
AddProfileStep ==
    /\ conf.kind = "none"
    /\ \E name \in ProfileNames, url \in Urls, version \in Versions, insecure \in BOOLEAN,
          username \in Usernames, password \in Passwords :
          add_profile(name, url, version, insecure, username, password)

LoadProfileStep ==
    /\ conf.kind = "none"
    /\ \E name \in ProfileNames \cup {"p2"} : load_profile(name)

ConfigureCreatedStep ==
    /\ cret = NoRet
    /\ \E url \in ConfigUrls, version \in Versions, insecure \in BOOLEAN,
          username \in Usernames, password \in Passwords :
          ConfigureCreated(url, version, insecure, username, password)

NextConfigure ==
    \/ AddProfileStep
    \/ LoadProfileStep
    \/ ConfigureLoaded
    \/ ConfigureCreatedStep

SpecConfigure == InitStore /\ [][NextConfigure]_vars

----------------------------------------------------------------------------
(* Properties *)

\* the request answered last, and what _request gave for it
LastReq == sent[Len(answers)]
LastAns == answers[Len(answers)]
HasAnswer == Len(answers) >= 1 /\ last.t = "response"

MappedKind ==
    400 :> "InvalidRequest" @@ 401 :> "AuthenticationError" @@ 403 :> "AuthorizationError"
    @@ 404 :> "NotFound" @@ 408 :> "RequestTimeout" @@ 409 :> "AlreadyExists"
    @@ 500 :> "InternalServerError"
MappedCodes == DOMAIN MappedKind

\* C1: a request, GET or POST, answered with one of the status codes 400, 401,
\* 403, 404, 408, 409, 500 makes _request raise the exception mapped to that
\* code: InvalidRequest, AuthenticationError, AuthorizationError, NotFound,
\* RequestTimeout, AlreadyExists, InternalServerError
C1_MappedStatus ==
    (HasAnswer /\ last.status \in MappedCodes /\ LastReq.verb \in SupportedVerbs)
        => LastAns.kind = MappedKind[last.status]

\* a POST was answered 409
C1_Witness ==
    /\ HasAnswer
    /\ last.status = 409
    /\ LastReq.verb = "post"
    /\ LastAns.kind = "AlreadyExists"

\* C2, as claimed: a request answered with a status code that is not 2xx and
\* not one of the seven mapped codes makes _request raise HTTPError
C2_NonSuccessRaisesHTTPError ==
    (HasAnswer /\ last.status \notin 200..299 /\ last.status \notin MappedCodes)
        => LastAns.kind = "HTTPError"

\* C2, amended: a request answered with a 4xx or 5xx status code that is not
\* one of the seven mapped codes makes _request raise HTTPError, and a
\* response with any status code below 400 is returned
C2_ErrorStatusRaisesHTTPError ==
    /\ (HasAnswer /\ last.status \in 400..599 /\ last.status \notin MappedCodes)
           => LastAns.kind = "HTTPError"
    /\ (HasAnswer /\ last.status < 400) => LastAns.kind = "return"

\* a request was answered 503
C2_Witness ==
    /\ HasAnswer
    /\ last.status = 503
    /\ LastAns.kind = "HTTPError"

\* the POST of the add in progress was answered with this kind
PostGave(kind) == call.op = "add" /\ Len(answers) >= 1 /\ answers[1].kind = kind

\* C3: an add whose POST is answered 409, called with exist_ok false, raises
\* AlreadyExists with the key of the response body (the body {pkhash: k} gives
\* the key k) and issues no GET
C3_ConflictRaised ==
    (PostGave("AlreadyExists") /\ ~call.exist_ok)
        => /\ pc = "done"
           /\ sent = <<Req("post", call.name, None)>>
           /\ result.kind = "AlreadyExists"
           /\ \A k \in Atoms : last.body = Obj(<<k>>) => result.key = Str(k)

C3_Witness ==
    /\ PostGave("AlreadyExists")
    /\ ~call.exist_ok
    /\ last.body = Obj(<<"a">>)
    /\ result.kind = "AlreadyExists"
    /\ result.key = Str("a")

\* C4: an add whose POST is answered 409 with a single key k, called with
\* exist_ok true, calls get once, for the same asset name and the key k, and
\* returns what that get returns or raises what it raises
C4_ConflictFetched ==
    (PostGave("AlreadyExists") /\ call.exist_ok /\ answers[1].key.t # "list")
        => /\ pc \in {"fetch", "done"}
           /\ sent = <<Req("post", call.name, None), Req("get", call.name, answers[1].key)>>
           /\ pc = "fetch" => Len(answers) = 1
           /\ pc = "done" => Len(answers) = 2 /\ result = request("get", last, TRUE)

C4_Witness ==
    /\ PostGave("AlreadyExists")
    /\ call.exist_ok
    /\ pc = "done"
    /\ Len(sent) = 2
    /\ sent[2] = Req("get", call.name, Str("a"))
    /\ result.kind = "return"
    /\ result.value = Obj(<<"a">>)

\* the two recoveries of add
PollCase ==
    PostGave("RequestTimeout") /\ call.retry_timeout # 0 /\ answers[1].key.t # "list"
FetchCase ==
    PostGave("AlreadyExists") /\ call.exist_ok /\ answers[1].key.t # "list"

\* C5: an add whose POST is answered 408 with a single key, called with a
\* retry_timeout that is not zero, polls get(name, key): it calls get again
\* only after a NotFound and only while retry_timeout has not elapsed, and it
\* ends with the first get result that is not NotFound, or with a NotFound
\* once retry_timeout has elapsed; when the gets give NotFound, NotFound and
\* then a success, the add returns that success and get was called 3 times
C5_TimeoutPolled ==
    PollCase =>
        /\ pc \in {"poll", "done"}
        /\ Len(sent) >= 2
        /\ \A i \in 2..Len(sent) : sent[i] = Req("get", call.name, answers[1].key)
        /\ \A i \in 2..Len(answers) : i < Len(sent) => answers[i].kind = "NotFound"
        /\ pc = "poll" =>
              /\ Len(sent) = Len(answers) + 1
              /\ Len(answers) >= 2 => elapsed < call.retry_timeout
        /\ pc = "done" =>
              /\ Len(sent) = Len(answers)
              /\ result = request("get", last, TRUE)
              /\ result.kind = "NotFound" => elapsed >= call.retry_timeout
        /\ (/\ pc = "done"
            /\ Len(answers) = 4
            /\ answers[2].kind = "NotFound"
            /\ answers[3].kind = "NotFound"
            /\ request("get", last, TRUE).kind = "return")
               => /\ result.kind = "return"
                  /\ result.value = last.body
                  /\ Len(sent) = 4

\* the gets gave NotFound, NotFound, then the asset
C5_Witness ==
    /\ PollCase
    /\ pc = "done"
    /\ Len(sent) = 4
    /\ answers[2].kind = "NotFound"
    /\ answers[3].kind = "NotFound"
    /\ answers[4].kind = "return"
    /\ result.kind = "return"
    /\ result.value = Obj(<<"a">>)

C7_NoOtherRecovery ==
    /\ (pc = "done" /\ call.op \in {"get", "list", "get_data", "request"}) =>
           /\ Len(sent) = Len(answers)
           /\ Len(sent) = IF call.verb \in SupportedVerbs THEN 1 ELSE 0
           /\ (Len(answers) = 1 /\ answers[1].kind # "return") =>
                  /\ result.kind = answers[1].kind
                  /\ result.key = answers[1].key
    /\ (call.op = "add" /\ Len(answers) >= 1 /\ ~PollCase /\ ~FetchCase) =>
           /\ pc = "done"
           /\ sent = <<Req("post", call.name, None)>>
           /\ answers[1].kind # "return" =>
                  /\ result.kind = answers[1].kind
                  /\ result.key = answers[1].key
    /\ (call.op = "download" /\ Len(answers) >= 1 /\ LastAns.kind # "return") =>
           /\ pc = "done"
           /\ Len(sent) = Len(answers)
           /\ result.kind = LastAns.kind

\* the POST of an add was answered 500
C7_Witness ==
    /\ PostGave("InternalServerError")
    /\ pc = "done"
    /\ Len(sent) = 1
    /\ result.kind = "InternalServerError"

Taxonomy ==
    {"ConnectionError", "Timeout", "RequestTimeout", "InvalidRequest",
     "AuthenticationError", "AuthorizationError", "NotFound", "AlreadyExists",
     "InternalServerError", "HTTPError", "InvalidResponse"}

\* C8: a get, list, add, get_data or request with a supported verb returns, or
\* raises an exception of the taxonomy, whatever the HTTP exchange gives
C8_OnlyTaxonomy ==
    (/\ pc = "done"
     /\ call.op \in {"get", "list", "add", "get_data", "request"}
     /\ call.verb \in SupportedVerbs)
        => result.kind \in Taxonomy \cup {"return"}

\* the elements of the lists of ls, in order
RECURSIVE Concat(_)
Concat(ls) ==
    IF Len(ls) = 0 THEN <<>>
    ELSE Concat(SubSeq(ls, 1, Len(ls) - 1)) \o ls[Len(ls)].v

AllLists(items) == \A i \in 1..Len(items) : items[i].t = "list"

\* C9: list returns the elements of the inner lists, in order, when the
\* server's response is a list whose elements are all lists ([[a],[b,a]] gives
\* [a,b,a]), and returns the response as it is when it is a list with an
\* element that is not a list
C9_ListFlattened ==
    (pc = "done" /\ call.op = "list" /\ answers[1].kind = "return" /\ last.body.t = "list")
        => /\ result.kind = "return"
           /\ AllLists(last.body.v) => result.value = Lst(Concat(last.body.v))
           /\ ~AllLists(last.body.v) => result.value = last.body
           /\ last.body = Lst(<<Lst(<<Str("a")>>), Lst(<<Str("b"), Str("a")>>)>>)
                  => result.value = Lst(<<Str("a"), Str("b"), Str("a")>>)

C9_Witness ==
    /\ pc = "done"
    /\ call.op = "list"
    /\ last.body = Lst(<<Lst(<<Str("a")>>), Lst(<<Str("b"), Str("a")>>)>>)
    /\ last.status = 200
    /\ result.value = Lst(<<Str("a"), Str("b"), Str("a")>>)

\* the profile add_profile is asked to add
ProfileOf(a) ==
    [url |-> a.url, version |-> a.version, insecure |-> a.insecure,
     auth |-> IF a.username # "" /\ a.password # ""
              THEN {<<"username", a.username>>, <<"password", a.password>>}
              ELSE {}]

\* C10: after any add_profile calls, load_profile(name) returns the profile of
\* the last add_profile of that name, and what add_profile returned is what a
\* load_profile of the same name returns next
C10_LastWriterWins ==
    /\ \A n \in ProfileNames :
           added[n].set => _load_profile(cfile, n) = CReturn(ProfileOf(added[n]))
    /\ (cret.op = "load_profile" /\ cret.name \in ProfileNames /\ added[cret.name].set)
           => /\ cret.kind = "return"
              /\ cret.value = ProfileOf(added[cret.name])
    /\ (cret.op = "add_profile" /\ cret.kind = "return")
           => _load_profile(cfile, cret.name) = CReturn(cret.value)

\* p1 was added after default, with credentials, and is loaded
C10_Witness ==
    /\ cret.op = "load_profile"
    /\ cret.name = "p1"
    /\ cret.kind = "return"
    /\ added["default"].set
    /\ added["p1"].set
    /\ added["p1"].username = "alice"
    /\ cret.value.url = "https://substra.org"
    /\ cret.value.auth = {<<"username", "alice">>, <<"password", "secret">>}

\* the profile names of the config file
NamesInFile == {cfile.doc[i].name : i \in 1..Len(cfile.doc)}

\* C11: load_profile raises ProfileNotFoundError for a name that a config file
\* that is there and is JSON does not hold, FileNotFoundError when the config
\* file is not there, and ConfigException when the config file is not JSON;
\* the absent file is never reported as ConfigException nor the file that is
\* not JSON as FileNotFoundError
C11_LoadFailures ==
    cret.op = "load_profile" =>
        /\ cfile.state = "absent" <=> cret.kind = "FileNotFoundError"
        /\ cfile.state = "malformed" <=> cret.kind = "ConfigException"
        /\ (cfile.state = "json" /\ cret.name \notin NamesInFile)
               <=> cret.kind = "ProfileNotFoundError"
        /\ (cfile.state = "json" /\ cret.name \in NamesInFile) <=> cret.kind = "return"

\* p2 is loaded from a config file that holds default and p1
C11_Witness ==
    /\ cret.op = "load_profile"
    /\ cret.name = "p2"
    /\ cfile.state = "json"
    /\ NamesInFile = {"default", "p1"}
    /\ cret.kind = "ProfileNotFoundError"

\* C12: for every profile the profile store makes, set_config returns, and the
\* default keyword arguments hold the credentials (username, password) exactly
\* when the profile has an auth, and verify=False exactly when it is insecure
C12_ConfigureSucceeds ==
    conf.kind # "none" =>
        /\ conf.kind = "return"
        /\ "auth" \in conf.kwargs.keys <=> conf.config.auth # NoAuth
        /\ conf.config.auth # NoAuth =>
               conf.kwargs.auth = <<GetItem(conf.config.auth, "username"),
                                    GetItem(conf.config.auth, "password")>>
        /\ "verify" \in conf.kwargs.keys <=> conf.config.insecure

\* an add is waiting for the answer of a request
AddInProgress == call.op = "add" /\ pc \in {"post", "poll", "fetch"}

\* what holds in every state of an add for C13
AddBounded ==
    /\ call.op = "add" => pc \in {"post", "poll", "fetch", "done"}
    /\ (call.op = "add" /\ pc = "done") => result.kind # "none"
    /\ (call.op = "add" /\ pc = "poll") =>
           /\ PollCase
           /\ Len(answers) >= 2 => elapsed < call.retry_timeout
    /\ PollCase => Len(sent) <= 1 + call.retry_timeout
    /\ (PollCase /\ pc = "done" /\ result.kind = "NotFound") =>
           /\ elapsed >= call.retry_timeout
           /\ result = request("get", last, TRUE)
           /\ \A i \in 2..Len(answers) : answers[i].kind = "NotFound"

C14_NoBudgetRaised ==
    /\ (/\ PostGave("RequestTimeout")
        /\ answers[1].key.t # "list"
        /\ call.retry_timeout = 0)
           => /\ pc = "done"
              /\ sent = <<Req("post", call.name, None)>>
              /\ result = request("post", last, TRUE)
              /\ result.kind = "RequestTimeout"
              /\ result.key = answers[1].key
    /\ pc = "poll" => call.retry_timeout # 0

\* a 408 with the key b and no retry_timeout
C14_Witness ==
    /\ PostGave("RequestTimeout")
    /\ answers[1].key = Str("b")
    /\ call.retry_timeout = 0
    /\ pc = "done"
    /\ Len(sent) = 1
    /\ result.kind = "RequestTimeout"
    /\ result.key = Str("b")

\* C15: the first request of an add is its POST and no other request of the
\* add is a POST: every later request is a GET of the same asset name with the
\* single key of the 408 or the 409 that answered the POST
C15_OnePost ==
    call.op = "add" =>
        /\ Len(sent) >= 1
        /\ sent[1] = Req("post", call.name, None)
        /\ \A i \in 2..Len(sent) : sent[i].verb # "post"
        /\ Len(sent) >= 2 =>
               /\ Len(answers) >= 1
               /\ answers[1].kind \in {"RequestTimeout", "AlreadyExists"}
               /\ answers[1].key.t # "list"
               /\ \A i \in 2..Len(sent) : sent[i] = Req("get", call.name, answers[1].key)

\* a 408 with the key b, then three gets of b
C15_Witness ==
    /\ PostGave("RequestTimeout")
    /\ answers[1].key = Str("b")
    /\ pc = "done"
    /\ Len(sent) = 4
    /\ sent[4] = Req("get", call.name, Str("b"))
    /\ result.kind = "return"

====
